---- MODULE Spec2Model ----
(***************************************************************************)
(* Temporal alignment and segment reconciliation of src/app.py:            *)
(*   match_selling_points_with_timestamps  (the phrase time locator)       *)
(*   merge_segments_by_selling_points      (the segment reconciler)        *)
(*   process_video_async                   (the pipeline of one video)     *)
(*   process_batch_endpoint                (the batch request handler)     *)
(*   process_all_videos_batch              (batch mode without the web UI) *)
(*   upload_video                          (the upload request handler)    *)
(* and of src/transcribe_videos.py:                                        *)
(*   main                                  (the transcription script)      *)
(*                                                                         *)
(* Strings are sequences of one-character strings, so that lower(),        *)
(* split(), join() and the substring test `in` are computed, not assumed.  *)
(* Word times are integer milliseconds; the times locate returns are       *)
(* integer centiseconds (the two decimals round(x, 2) keeps).              *)
(***************************************************************************)
EXTENDS Integers, Sequences, FiniteSets

VARIABLES
    \* match_selling_points_with_timestamps
    word_segments,      \* argument: sequence of [start, end, word]
    selling_points,     \* argument: sequence of strings
    lpc,                \* position: "loop", "done"
    sp_idx,             \* number of selling points the for loop has consumed
    matched_positions,  \* sequence of BOOLEAN, one per transcript word
    result,             \* the list `result`; sorted once lpc = "done"
    log,                \* history: one record per loop iteration
    \* merge_segments_by_selling_points
    video_segments,     \* content_json["result"]["contents"]
    timed_points,       \* selling_points_json["selling_points"]
    time_deviation_ms,  \* argument
    min_overlap_percentage, \* argument, a fraction [num, den]
    rpc,                \* position: "loop", "done", "raised"
    tp_idx,             \* number of selling points the for loop has consumed
    merged_segments,    \* result["merged_segments"]
    merged_segment_indices, \* the set of indices of merged content segments
    unmerged_segments,  \* result["unmerged_segments"]
    final_segments,     \* result["final_segments"]
    absorbed,           \* history: per merged segment, the indices it absorbed
    unmerged_idx,       \* history: the indices listed in unmerged_segments
    calls,              \* number of calls of the function so far
    first_call,         \* history: the arguments and the result of the first call
    \* process_video_async
    video_name,         \* argument
    ppc,                \* position: the stage to run next, or "returned"
    processing_status,  \* the global dictionary processing_status
    content_json_exists, \* os.path.exists(content_json_path)
    audio_exists,       \* os.path.exists(audio_path)
    status_log,         \* history: the update_status calls of this run
    raised,             \* history: <<str(e)>> once a stage raised, else <<>>
    \* process_batch_endpoint
    video_names,        \* request.video_names
    existing_paths,     \* the paths for which os.path.exists is true
    bpc,                \* position: "loop", "done"
    name_idx,           \* number of names the for loop has consumed
    processed_videos,   \* the list processed_videos
    not_found_videos,   \* the list not_found_videos
    background_tasks,   \* the tasks added to background_tasks
    \* process_all_videos_batch
    videos,             \* the list input_dir.glob("*.mp4") found
    apc,                \* position: "glob", "gather", "done"
    semaphore,          \* the value of asyncio.Semaphore(3)
    task_state,         \* per task: "waiting", "running", "completed", "error"
    invocations,        \* history: calls of process_video_async per video
    \* upload_video, two requests
    inputs_dir,         \* the files of inputs: name -> content
    upload_filename,    \* per request: file.filename as [stem, suffix]
    upc,                \* per request: "validate", "save", "done", "rejected", "failed"
    file_path,          \* per request: the local file_path
    \* transcribe_videos.main
    video_files,        \* glob.glob("inputs/*.mp4")
    mpc,                \* position within the loop body, or "done"
    file_idx,           \* number of videos the for loop has finished
    wav_exists,         \* per video: os.path.exists(audio_path)
    outcomes            \* history: per finished video, how its body ended

lvars == <<word_segments, selling_points, lpc, sp_idx, matched_positions, result, log>>

rvars == <<video_segments, timed_points, time_deviation_ms, min_overlap_percentage,
           rpc, tp_idx, merged_segments, merged_segment_indices,
           unmerged_segments, final_segments, absorbed, unmerged_idx,
           calls, first_call>>

pvars == <<video_name, ppc, processing_status, content_json_exists, audio_exists,
           status_log, raised>>

bvars == <<video_names, existing_paths, bpc, name_idx, processed_videos,
           not_found_videos, background_tasks>>

avars == <<videos, apc, semaphore, task_state, invocations>>

uvars == <<inputs_dir, upload_filename, upc, file_path>>

mvars == <<video_files, mpc, file_idx, wav_exists, outcomes>>

vars == <<lvars, rvars, pvars, bvars, avars, uvars, mvars>>

----------------------------------------------------------------------------
\* Bounds of the model.
MaxWords == 4
MaxPhrases == 2
MaxSegments == 2
MaxTimedPhrases == 2

\* Python's None in startTime / endTime (times are never negative).
None == -1

----------------------------------------------------------------------------
\* Strings.

LowerChar(c) == CASE c = "A" -> "a" [] c = "B" -> "b" [] OTHER -> c

\* str.lower()
Lower(s) == [i \in 1..Len(s) |-> LowerChar(s[i])]

\* str.split(): the maximal runs of non-whitespace characters.
RECURSIVE SplitFrom(_, _, _)
SplitFrom(s, i, cur) ==
    IF i > Len(s)
    THEN IF cur = <<>> THEN <<>> ELSE <<cur>>
    ELSE IF s[i] = " "
         THEN (IF cur = <<>> THEN <<>> ELSE <<cur>>) \o SplitFrom(s, i + 1, <<>>)
         ELSE SplitFrom(s, i + 1, Append(cur, s[i]))

\* A split that keeps a whitespace-only string as one word.
Split_KeepsBlank(s) ==
    IF SplitFrom(s, 1, <<>>) = <<>> /\ s # <<>> THEN <<s>> ELSE SplitFrom(s, 1, <<>>)

\* A split into characters, whitespace included.
Split_Characters(s) == [i \in 1..Len(s) |-> <<s[i]>>]

Split(s) == SplitFrom(s, 1, <<>>)

\* " ".join(ws)
RECURSIVE Join(_)
Join(ws) ==
    IF ws = <<>> THEN <<>>
    ELSE IF Len(ws) = 1 THEN ws[1]
    ELSE ws[1] \o <<" ">> \o Join(Tail(ws))

\* a in b, for strings: a is a contiguous substring of b.
Contains(a, b) ==
    \E i \in 0..(Len(b) - Len(a)) : SubSeq(b, i + 1, i + Len(a)) = a

\* round(x, 2) of a time of x milliseconds, in centiseconds.  The inputs of
\* the model have no time at an exact half centisecond.
Round2(ms) == (ms + 5) \div 10

Max(a, b) == IF a >= b THEN a ELSE b
Min(a, b) == IF a <= b THEN a ELSE b

----------------------------------------------------------------------------
\* match_selling_points_with_timestamps: the per-phrase matching.

\* word_data: the transcript with lowercased words.
WordData(ws) ==
    [i \in 1..Len(ws) |->
        [start |-> ws[i].start, end |-> ws[i].end, word |-> Lower(ws[i].word)]]

\* The equivalence test of a transcript word w and a phrase word p.
WordsMatch(w, p) == Contains(w, p) \/ Contains(p, w)

\* The acceptance threshold for a phrase of n words.
Threshold(n) == Max(1, n \div 2)

\* A scan that skips claimed positions only, whatever number of words is left.
Skipped_ClaimsOnly(wd, mp, pw, i, skip) == skip /\ mp[i]

\* Position i (1-based) is skipped by the scan.  skip is TRUE in the first
\* pass, which honours matched_positions, and FALSE in the second.
Skipped(wd, mp, pw, i, skip) ==
    (skip /\ mp[i]) \/ (i - 1) + Len(pw) > Len(wd)

\* matched_words: the inner walk over j from candidate i, having matched j
\* words so far.
RECURSIVE CountMatched(_, _, _, _, _, _)
CountMatched(wd, mp, pw, i, j, skip) ==
    IF j >= Len(pw) THEN j
    ELSE IF i + j > Len(wd) \/ (skip /\ mp[i + j]) THEN j
    ELSE IF WordsMatch(wd[i + j].word, pw[j + 1])
         THEN CountMatched(wd, mp, pw, i, j + 1, skip)
         ELSE j

\* The test that lets transcript word w extend a match whose unmatched
\* phrase words are rest.
Absorbs(w, rest) ==
    Contains(w, Join(rest)) \/ \E q \in 1..Len(rest) : Contains(rest[q], w)

\* The greedy extension: the loop over k, acc = [end_time, matched_indices].
RECURSIVE Extend(_, _, _, _, _, _)
Extend(wd, mp, rest, k, acc, skip) ==
    IF k > Len(wd) THEN acc
    ELSE IF skip /\ mp[k] THEN Extend(wd, mp, rest, k + 1, acc, skip)
    ELSE IF Absorbs(wd[k].word, rest)
         THEN Extend(wd, mp, rest, k + 1,
                     [end_time |-> wd[k].end,
                      matched_indices |-> Append(acc.matched_indices, k)], skip)
         ELSE Extend(wd, mp, rest, k + 1, acc, skip)

\* A match whose end is the end of its first word, when nothing is absorbed.
MatchAt_FirstWordEnd(wd, mp, pw, i, skip) ==
    LET m    == CountMatched(wd, mp, pw, i, 0, skip)
        rest == SubSeq(pw, m + 1, Len(pw))
        acc0 == [end_time |-> wd[i].end,
                 matched_indices |-> [x \in 1..m |-> i + x - 1]]
        acc  == IF Join(rest) # <<>>
                THEN Extend(wd, mp, rest, i + m, acc0, skip)
                ELSE acc0
    IN  [start_time |-> wd[i].start, end_time |-> acc.end_time,
         matched_indices |-> acc.matched_indices]

\* An extension that skips the claimed words in the second pass too.
MatchAt_ExtensionSkipsClaimed(wd, mp, pw, i, skip) ==
    LET m    == CountMatched(wd, mp, pw, i, 0, skip)
        rest == SubSeq(pw, m + 1, Len(pw))
        acc0 == [end_time |-> wd[i + m - 1].end,
                 matched_indices |-> [x \in 1..m |-> i + x - 1]]
        acc  == IF Join(rest) # <<>>
                THEN Extend(wd, mp, rest, i + m, acc0, TRUE)
                ELSE acc0
    IN  [start_time |-> wd[i].start, end_time |-> acc.end_time,
         matched_indices |-> acc.matched_indices]

\* The body of `if matched_words >= max(1, len(point_words) // 2)` at i.
MatchAt(wd, mp, pw, i, skip) ==
    LET m    == CountMatched(wd, mp, pw, i, 0, skip)
        rest == SubSeq(pw, m + 1, Len(pw))
        acc0 == [end_time |-> wd[i + m - 1].end,
                 matched_indices |-> [x \in 1..m |-> i + x - 1]]
        acc  == IF Join(rest) # <<>>
                THEN Extend(wd, mp, rest, i + m, acc0, skip)
                ELSE acc0
    IN  [start_time |-> wd[i].start, end_time |-> acc.end_time,
         matched_indices |-> acc.matched_indices]

Accepts(wd, mp, pw, i, skip) ==
    /\ ~Skipped(wd, mp, pw, i, skip)
    /\ CountMatched(wd, mp, pw, i, 0, skip) >= Threshold(Len(pw))

NoMatch == [start_time |-> None, end_time |-> None, matched_indices |-> <<>>]

\* A scan that keeps the last accepted position instead of the first.
Scan_LastAccepted(wd, mp, pw, skip) ==
    LET acc == {i \in 1..Len(wd) : Accepts(wd, mp, pw, i, skip)}
    IN  IF acc = {} THEN NoMatch
        ELSE MatchAt(wd, mp, pw, CHOOSE i \in acc : \A x \in acc : i >= x, skip)

\* One scan over i with a break at the first accepted position.
Scan(wd, mp, pw, skip) ==
    LET acc == {i \in 1..Len(wd) : Accepts(wd, mp, pw, i, skip)}
    IN  IF acc = {} THEN NoMatch
        ELSE MatchAt(wd, mp, pw, CHOOSE i \in acc : \A x \in acc : i <= x, skip)

\* A second pass that still skips the claimed words.
SecondPass_HonoursClaims(wd, mp, pw) == Scan(wd, mp, pw, TRUE)

FirstPass(wd, mp, pw) == Scan(wd, mp, pw, TRUE)

SecondPass(wd, mp, pw) == Scan(wd, mp, pw, FALSE)

\* Both passes for one phrase: what the loop body computes before it appends.
MatchPhrase(wd, mp, pw) ==
    LET p1 == FirstPass(wd, mp, pw)
    IN  IF p1.start_time = None
        THEN LET p2 == SecondPass(wd, mp, pw)
             IN  [pass |-> IF p2.start_time = None THEN "none" ELSE "pass2",
                  m |-> p2]
        ELSE [pass |-> "pass1", m |-> p1]

\* Marks only the first consumed index.
MarkMatched_FirstOnly(mp, indices) ==
    [x \in 1..Len(mp) |-> mp[x] \/ (indices # <<>> /\ indices[1] = x)]

\* Marks the consumed indices and forgets the earlier claims.
MarkMatched_OnlyNew(mp, indices) ==
    [x \in 1..Len(mp) |-> \E q \in 1..Len(indices) : indices[q] = x]

\* for idx in matched_indices: matched_positions[idx] = True
MarkMatched(mp, indices) ==
    [x \in 1..Len(mp) |-> mp[x] \/ \E q \in 1..Len(indices) : indices[q] = x]

\* An entry whose times are exchanged.
ResultEntry_Swapped(sp, m) ==
    IF m.start_time # None /\ m.end_time # None
    THEN [startTime |-> Round2(m.end_time), endTime |-> Round2(m.start_time),
          content |-> sp]
    ELSE [startTime |-> None, endTime |-> None, content |-> sp]

\* An entry that reports an unmatched phrase at time zero.
ResultEntry_ZeroTimes(sp, m) ==
    IF m.start_time # None /\ m.end_time # None
    THEN [startTime |-> Round2(m.start_time), endTime |-> Round2(m.end_time),
          content |-> sp]
    ELSE [startTime |-> 0, endTime |-> 0, content |-> sp]

\* The entry appended to result.
ResultEntry(sp, m) ==
    IF m.start_time # None /\ m.end_time # None
    THEN [startTime |-> Round2(m.start_time), endTime |-> Round2(m.end_time),
          content |-> sp]
    ELSE [startTime |-> None, endTime |-> None, content |-> sp]

\* A sort key of startTime alone, None counting as the smallest time.
KeyLess_TimeOnly(a, b) == a.startTime < b.startTime

\* The sort key (x["startTime"] is None, x["startTime"]) compared as tuples.
KeyLess(a, b) ==
    IF (a.startTime = None) # (b.startTime = None)
    THEN b.startTime = None
    ELSE a.startTime # None /\ a.startTime < b.startTime

\* list.sort is stable: x goes before the first entry that is greater.
RECURSIVE InsertSorted(_, _)
InsertSorted(x, s) ==
    IF s = <<>> THEN <<x>>
    ELSE IF KeyLess(x, s[1]) THEN <<x>> \o s
    ELSE <<s[1]>> \o InsertSorted(x, Tail(s))

RECURSIVE SortResult(_)
SortResult(s) ==
    IF s = <<>> THEN <<>>
    ELSE InsertSorted(s[Len(s)], SortResult(SubSeq(s, 1, Len(s) - 1)))

----------------------------------------------------------------------------
\* Inputs of the locator.

Vocabulary == { <<"A">>, <<"b">>, <<"a", "b">> }

PhraseCatalogue ==
    { <<>>,
      <<" ">>,
      <<"a">>,
      <<"b", " ", " ", "A">>,
      <<"a", " ", "b", " ", "a", " ", "b">> }

\* The times of the i-th transcript word, in milliseconds: starts are
\* ordered and start < end; every second word is long and overlaps its
\* successors, the others are a few milliseconds long.
WordTime(i) ==
    [start |-> (i - 1) * 500 + 1,
     end   |-> (i - 1) * 500 + 1 + (IF i % 2 = 0 THEN 2507 ELSE 3)]

Transcripts ==
    UNION { { [i \in 1..n |-> [start |-> WordTime(i).start,
                               end   |-> WordTime(i).end,
                               word  |-> t[i]]] :
              t \in [1..n -> Vocabulary] } : n \in 0..MaxWords }

PhraseLists == UNION { [1..n -> PhraseCatalogue] : n \in 0..MaxPhrases }

----------------------------------------------------------------------------
\* match_selling_points_with_timestamps as a state machine.

\* process_video_async has not been called.
ProcessIdle ==
    /\ video_name = ""
    /\ ppc = "idle"
    /\ processing_status = <<>>
    /\ content_json_exists = FALSE
    /\ audio_exists = FALSE
    /\ status_log = <<>>
    /\ raised = <<>>

\* process_batch_endpoint has not been called.
BatchIdle ==
    /\ video_names = <<>>
    /\ existing_paths = {}
    /\ bpc = "idle"
    /\ name_idx = 0
    /\ processed_videos = <<>>
    /\ not_found_videos = <<>>
    /\ background_tasks = <<>>

\* process_all_videos_batch has not been called.
BatchModeIdle ==
    /\ videos = <<>>
    /\ apc = "idle"
    /\ semaphore = 0
    /\ task_state = <<>>
    /\ invocations = <<>>

\* No upload request has arrived.
UploadIdle ==
    /\ inputs_dir = <<>>
    /\ upload_filename = <<>>
    /\ upc = <<>>
    /\ file_path = <<>>

\* main of transcribe_videos.py has not been called.
MainIdle ==
    /\ video_files = <<>>
    /\ mpc = "idle"
    /\ file_idx = 0
    /\ wav_exists = <<>>
    /\ outcomes = <<>>

\* None of the three is running.
OthersIdle == BatchModeIdle /\ UploadIdle /\ MainIdle

\* merge_segments_by_selling_points has not been called.
ReconcileIdle ==
    /\ video_segments = <<>>
    /\ timed_points = <<>>
    /\ time_deviation_ms = 0
    /\ min_overlap_percentage = [num |-> 1, den |-> 5]
    /\ rpc = "idle"
    /\ tp_idx = 0
    /\ merged_segments = <<>>
    /\ merged_segment_indices = {}
    /\ unmerged_segments = <<>>
    /\ final_segments = <<>>
    /\ absorbed = <<>>
    /\ unmerged_idx = <<>>
    /\ calls = 0
    /\ first_call = <<>>

InitLocate ==
    /\ word_segments \in Transcripts
    /\ selling_points \in PhraseLists
    /\ lpc = "loop"
    /\ sp_idx = 0
    /\ matched_positions = [i \in 1..Len(word_segments) |-> FALSE]
    /\ result = <<>>
    /\ log = <<>>
    /\ ReconcileIdle
    /\ ProcessIdle
    /\ BatchIdle
    /\ OthersIdle

\* One iteration of `for selling_point in selling_points`.
LocateSellingPoint ==
    /\ lpc = "loop"
    /\ sp_idx < Len(selling_points)
    /\ LET sp == selling_points[sp_idx + 1]
           pw == Split(Lower(sp))
           wd == WordData(word_segments)
       IN  IF pw = <<>>
           THEN /\ log' = Append(log, [sp |-> sp_idx + 1, pass |-> "empty",
                                       indices |-> <<>>, before |-> matched_positions,
                                       entry |-> ResultEntry(sp, NoMatch)])
                /\ UNCHANGED <<matched_positions, result>>
           ELSE LET r == MatchPhrase(wd, matched_positions, pw)
                    e == ResultEntry(sp, r.m)
                IN  /\ result' = Append(result, e)
                    /\ matched_positions' =
                           IF e.startTime # None
                           THEN MarkMatched(matched_positions, r.m.matched_indices)
                           ELSE matched_positions
                    /\ log' = Append(log, [sp |-> sp_idx + 1, pass |-> r.pass,
                                           indices |-> r.m.matched_indices,
                                           before |-> matched_positions,
                                           entry |-> e])
    /\ sp_idx' = sp_idx + 1
    /\ UNCHANGED <<word_segments, selling_points, lpc>>
    /\ UNCHANGED <<rvars, pvars, bvars, avars, uvars, mvars>>

\* After the loop: result.sort(...) and return.
LocateReturn ==
    /\ lpc = "loop"
    /\ sp_idx = Len(selling_points)
    /\ result' = SortResult(result)
    /\ lpc' = "done"
    /\ UNCHANGED <<word_segments, selling_points, sp_idx, matched_positions, log>>
    /\ UNCHANGED <<rvars, pvars, bvars, avars, uvars, mvars>>

NextLocate == LocateSellingPoint \/ LocateReturn

SpecLocate == InitLocate /\ [][NextLocate]_vars

----------------------------------------------------------------------------
\* merge_segments_by_selling_points.

\* int(t * 1000) for a time t given in centiseconds: the float product of
\* 2.01 and of 2.03 with 1000 falls just below the integer and int()
\* truncates it (the only such times below 4 s).
ToMs(cs) == cs * 10 - (IF cs \in {201, 203} THEN 1 ELSE 0)

\* segment["fields"].get(name, {}).get("valueString", "")
FieldValue(segment, name) ==
    IF name \in DOMAIN segment.fields THEN segment.fields[name] ELSE ""

\* The record appended to overlapping_segments and to unmerged_segments.
SegmentRecord(segment) ==
    [startTimeMs |-> segment.startTimeMs,
     endTimeMs   |-> segment.endTimeMs,
     sellingPoint |-> FieldValue(segment, "sellingPoint"),
     description  |-> FieldValue(segment, "description")]

\* An overlap start that moves later as the deviation grows.
OverlapStart_AddsDeviation(segment, start_time_ms, dev) ==
    Max(segment.startTimeMs, start_time_ms + dev)

\* overlap_start and overlap_end of a segment and a selling point.
OverlapStart(segment, start_time_ms, dev) ==
    Max(segment.startTimeMs, start_time_ms - dev)

\* An overlap end that forgets the time deviation.
OverlapEnd_NoDeviation(segment, end_time_ms, dev) ==
    Min(segment.endTimeMs, end_time_ms)

OverlapEnd(segment, end_time_ms, dev) ==
    Min(segment.endTimeMs, end_time_ms + dev)

\* A threshold that must be exceeded.
FractionAtLeast_Strict(overlap, shorter, minp) ==
    IF shorter > 0
    THEN overlap * minp.den > minp.num * shorter
    ELSE overlap * minp.den < minp.num * shorter

\* overlap_duration / shorter_duration >= min_overlap_percentage, shorter
\* being non-zero.  The quotient of two integers of this size and the
\* literal num/den differ by far more than a float's precision when they
\* differ, so the comparison of the fractions is the comparison of floats.
FractionAtLeast(overlap, shorter, minp) ==
    IF shorter > 0
    THEN overlap * minp.den >= minp.num * shorter
    ELSE overlap * minp.den <= minp.num * shorter

\* An overlap percentage relative to the longer of the two durations.
OverlapTest_LongerDuration(segment, start_time_ms, end_time_ms, dev, minp) ==
    LET overlap_start == OverlapStart(segment, start_time_ms, dev)
        overlap_end   == OverlapEnd(segment, end_time_ms, dev)
        longer == Max(segment.endTimeMs - segment.startTimeMs,
                      end_time_ms - start_time_ms)
    IN  IF overlap_start < overlap_end
        THEN IF longer = 0 THEN "raise"
             ELSE IF FractionAtLeast(overlap_end - overlap_start, longer, minp)
                  THEN "merge" ELSE "skip"
        ELSE "skip"

\* The body of the loop over video_segments for one segment: "merge" when
\* the segment is appended to overlapping_segments, "skip" when it is not,
\* "raise" when the division by shorter_duration raises ZeroDivisionError.
OverlapTest(segment, start_time_ms, end_time_ms, dev, minp) ==
    LET overlap_start == OverlapStart(segment, start_time_ms, dev)
        overlap_end   == OverlapEnd(segment, end_time_ms, dev)
        shorter == Min(segment.endTimeMs - segment.startTimeMs,
                       end_time_ms - start_time_ms)
    IN  IF overlap_start < overlap_end
        THEN IF shorter = 0 THEN "raise"
             ELSE IF FractionAtLeast(overlap_end - overlap_start, shorter, minp)
                  THEN "merge" ELSE "skip"
        ELSE "skip"

\* for i, segment in enumerate(video_segments), from segment i on:
\* acc = [overlapping, idx, merged, raised].
RECURSIVE FindOverlapping(_, _, _, _, _, _, _)
FindOverlapping(segs, i, start_time_ms, end_time_ms, dev, minp, acc) ==
    IF i > Len(segs) \/ acc.raised THEN acc
    ELSE LET t == OverlapTest(segs[i], start_time_ms, end_time_ms, dev, minp)
         IN  FindOverlapping(segs, i + 1, start_time_ms, end_time_ms, dev, minp,
                 IF t = "raise" THEN [acc EXCEPT !.raised = TRUE]
                 ELSE IF t = "merge"
                      THEN [overlapping |-> Append(acc.overlapping, SegmentRecord(segs[i])),
                            idx |-> Append(acc.idx, i),
                            merged |-> acc.merged \cup {i},
                            raised |-> FALSE]
                      ELSE acc)

\* A merged segment that keeps the one timestamp the selling point has.
UntimedMerged_KeepsStart(selling_point) ==
    [startTimeMs |-> IF selling_point.startTime = None THEN None
                     ELSE ToMs(selling_point.startTime),
     endTimeMs |-> None,
     content |-> selling_point.content, overlapping_segments |-> <<>>]

\* A call that appends to the lists an earlier call left behind.
EnterReconcile_KeepsLists(left) ==
    [merged_segments |-> left.merged_segments,
     unmerged_segments |-> left.unmerged_segments,
     final_segments |-> left.final_segments,
     merged_segment_indices |-> {}]

\* result = {"merged_segments": [], ...} and merged_segment_indices = set():
\* the locals a call starts with, whatever an earlier call left behind.
EnterReconcile(left) ==
    [merged_segments |-> <<>>,
     unmerged_segments |-> <<>>,
     final_segments |-> <<>>,
     merged_segment_indices |-> {}]

\* The merged segment of a selling point without timestamps.
UntimedMerged(selling_point) ==
    [startTimeMs |-> None, endTimeMs |-> None,
     content |-> selling_point.content, overlapping_segments |-> <<>>]

\* Every segment goes to unmerged_segments.
UnmergedIndices_All(n, i, merged) == [q \in 1..(n - i + 1) |-> i + q - 1]

\* The indices of the segments that go to unmerged_segments, in order.
RECURSIVE UnmergedIndices(_, _, _)
UnmergedIndices(n, i, merged) ==
    IF i > n THEN <<>>
    ELSE (IF i \in merged THEN <<>> ELSE <<i>>) \o UnmergedIndices(n, i + 1, merged)

\* A final segment that spans the selling point's own times.
MergedFinal_PhraseSpan(merged_segment) ==
    [startTimeMs |-> merged_segment.startTimeMs,
     endTimeMs   |-> merged_segment.endTimeMs,
     sellingPoint |-> merged_segment.content]

\* The final segment of a merged segment with overlapping segments.
MergedFinal(merged_segment) ==
    LET ov == merged_segment.overlapping_segments
    IN  [startTimeMs |-> ov[1].startTimeMs,
         endTimeMs   |-> ov[Len(ov)].endTimeMs,
         sellingPoint |-> merged_segment.content]

UnmergedFinal(unmerged_segment) ==
    [startTimeMs |-> unmerged_segment.startTimeMs,
     endTimeMs   |-> unmerged_segment.endTimeMs,
     sellingPoint |-> unmerged_segment.sellingPoint]

\* A merged segment without overlaps enters the timeline with its own span.
FinalFromMerged_Placeholder(ms) ==
    [m \in 1..Len(ms) |->
        IF ms[m].overlapping_segments # <<>> THEN MergedFinal(ms[m])
        ELSE [startTimeMs |-> ms[m].startTimeMs, endTimeMs |-> ms[m].endTimeMs,
              sellingPoint |-> ms[m].content]]

\* The two loops that fill final_segments.
RECURSIVE FinalFromMerged(_)
FinalFromMerged(ms) ==
    IF ms = <<>> THEN <<>>
    ELSE (IF ms[1].overlapping_segments # <<>> THEN <<MergedFinal(ms[1])>> ELSE <<>>)
         \o FinalFromMerged(Tail(ms))

FinalSegments(ms, us) ==
    FinalFromMerged(ms) \o [i \in 1..Len(us) |-> UnmergedFinal(us[i])]

----------------------------------------------------------------------------
\* Inputs of the reconciler.

SegmentCatalogue ==
    { [startTimeMs |-> 500, endTimeMs |-> 1500,
       fields |-> [sellingPoint |-> "pockets", description |-> "showing pockets"]],
      [startTimeMs |-> 500, endTimeMs |-> 900,
       fields |-> [sellingPoint |-> "zip"]],
      [startTimeMs |-> 1500, endTimeMs |-> 2500,
       fields |-> [sellingPoint |-> "stretchy", description |-> "stretching"]],
      [startTimeMs |-> 3000, endTimeMs |-> 3200,
       fields |-> [description |-> "outro"]] }

\* Selling points with timestamps in centiseconds, as locate rounds them.
TimedPhraseCatalogue ==
    { [startTime |-> 50,   endTime |-> 150,  content |-> "magical pockets"],
      [startTime |-> 100,  endTime |-> 100,  content |-> "zip"],
      [startTime |-> 113,  endTime |-> 201,  content |-> "super stretchy"],
      [startTime |-> None, endTime |-> None, content |-> "unheard"],
      [startTime |-> 50,   endTime |-> None, content |-> "half timed"] }

Deviations == {0, 100}

Fractions == { [num |-> 0, den |-> 1], [num |-> 1, den |-> 5],
               [num |-> 4, den |-> 5], [num |-> 1, den |-> 1] }

SegmentLists == UNION { [1..n -> SegmentCatalogue] : n \in 0..MaxSegments }

TimedPhraseLists == UNION { [1..n -> TimedPhraseCatalogue] : n \in 0..MaxTimedPhrases }

----------------------------------------------------------------------------
\* merge_segments_by_selling_points as a state machine.

\* match_selling_points_with_timestamps has not been called.
LocateIdle ==
    /\ word_segments = <<>>
    /\ selling_points = <<>>
    /\ lpc = "idle"
    /\ sp_idx = 0
    /\ matched_positions = <<>>
    /\ result = <<>>
    /\ log = <<>>

InitReconcile ==
    /\ LocateIdle
    /\ ProcessIdle
    /\ BatchIdle
    /\ OthersIdle
    /\ video_segments \in SegmentLists
    /\ timed_points \in TimedPhraseLists
    /\ time_deviation_ms \in Deviations
    /\ min_overlap_percentage \in Fractions
    /\ rpc = "loop"
    /\ tp_idx = 0
    /\ merged_segments = <<>>
    /\ merged_segment_indices = {}
    /\ unmerged_segments = <<>>
    /\ final_segments = <<>>
    /\ absorbed = <<>>
    /\ unmerged_idx = <<>>
    /\ calls = 1
    /\ first_call = [arguments |-> <<video_segments, timed_points, time_deviation_ms,
                                      min_overlap_percentage>>,
                      returned |-> FALSE, result |-> <<>>]

\* One iteration of `for selling_point in selling_points_json["selling_points"]`.
ReconcileSellingPoint ==
    /\ rpc = "loop"
    /\ tp_idx < Len(timed_points)
    /\ LET selling_point == timed_points[tp_idx + 1]
       IN  IF selling_point.startTime = None \/ selling_point.endTime = None
           THEN /\ merged_segments' = Append(merged_segments, UntimedMerged(selling_point))
                /\ absorbed' = Append(absorbed, <<>>)
                /\ tp_idx' = tp_idx + 1
                /\ UNCHANGED <<rpc, merged_segment_indices>>
           ELSE LET start_time_ms == ToMs(selling_point.startTime)
                    end_time_ms   == ToMs(selling_point.endTime)
                    f == FindOverlapping(video_segments, 1, start_time_ms, end_time_ms,
                             time_deviation_ms, min_overlap_percentage,
                             [overlapping |-> <<>>, idx |-> <<>>,
                              merged |-> merged_segment_indices, raised |-> FALSE])
                IN  IF f.raised
                    THEN /\ rpc' = "raised"
                         /\ merged_segment_indices' = f.merged
                         /\ UNCHANGED <<merged_segments, absorbed, tp_idx>>
                    ELSE /\ merged_segments' = Append(merged_segments,
                                [startTimeMs |-> start_time_ms,
                                 endTimeMs   |-> end_time_ms,
                                 content     |-> selling_point.content,
                                 overlapping_segments |-> f.overlapping])
                         /\ absorbed' = Append(absorbed, f.idx)
                         /\ merged_segment_indices' = f.merged
                         /\ tp_idx' = tp_idx + 1
                         /\ UNCHANGED rpc
    /\ UNCHANGED <<video_segments, timed_points, time_deviation_ms,
                   min_overlap_percentage, unmerged_segments, final_segments,
                   unmerged_idx, calls, first_call>>
    /\ UNCHANGED <<lvars, pvars, bvars, avars, uvars, mvars>>

\* After the loop: unmerged_segments, final_segments and return.
ReconcileReturn ==
    /\ rpc = "loop"
    /\ tp_idx = Len(timed_points)
    /\ LET ui == UnmergedIndices(Len(video_segments), 1, merged_segment_indices)
           us == [q \in 1..Len(ui) |-> SegmentRecord(video_segments[ui[q]])]
       IN  /\ unmerged_idx' = ui
           /\ unmerged_segments' = us
           /\ final_segments' = FinalSegments(merged_segments, us)
    /\ rpc' = "done"
    /\ UNCHANGED <<video_segments, timed_points, time_deviation_ms,
                   min_overlap_percentage, tp_idx, merged_segments,
                   merged_segment_indices, absorbed, calls, first_call>>
    /\ UNCHANGED <<lvars, pvars, bvars, avars, uvars, mvars>>

\* The caller runs the function once more on the same arguments: the
\* function starts from its own fresh result and merged_segment_indices.
ReconcileCallAgain ==
    /\ rpc = "done"
    /\ calls = 1
    /\ LET entry == EnterReconcile([merged_segments |-> merged_segments,
                                    unmerged_segments |-> unmerged_segments,
                                    final_segments |-> final_segments,
                                    merged_segment_indices |-> merged_segment_indices])
       IN  /\ merged_segments' = entry.merged_segments
           /\ unmerged_segments' = entry.unmerged_segments
           /\ final_segments' = entry.final_segments
           /\ merged_segment_indices' = entry.merged_segment_indices
    /\ first_call' = [first_call EXCEPT !.returned = TRUE,
                          !.result = <<merged_segments, unmerged_segments, final_segments>>]
    /\ calls' = 2
    /\ rpc' = "loop"
    /\ tp_idx' = 0
    /\ absorbed' = <<>>
    /\ unmerged_idx' = <<>>
    /\ UNCHANGED <<video_segments, timed_points, time_deviation_ms, min_overlap_percentage>>
    /\ UNCHANGED <<lvars, pvars, bvars, avars, uvars, mvars>>

NextReconcile == ReconcileSellingPoint \/ ReconcileReturn \/ ReconcileCallAgain

SpecReconcile == InitReconcile /\ [][NextReconcile]_vars

----------------------------------------------------------------------------
\* process_video_async as a state machine.  A message is the sequence of its
\* words; the timestamp update_status stores is left out.

VideoNames == {"video1.mp4", "video2.mp4"}

\* str(e) of the exceptions a stage raises.
ErrorTexts == { <<>>, <<"Test", "error">>, <<"No", "such", "file">> }

StatusRecord(status, progress, message) ==
    [status |-> status, progress |-> progress, message |-> message]

Processing(progress, message) == StatusRecord("processing", progress, message)

Completed ==
    StatusRecord("completed", 100, <<"Processing", "completed", "successfully!">>)

\* An error status that does not carry the text of the exception.
ErrorStatus_NoText(text) == StatusRecord("error", 0, <<"Error:">>)

\* update_status(video_name, "error", 0, f"Error: {str(e)}")
ErrorStatus(text) == StatusRecord("error", 0, <<"Error:">> \o text)

\* processing_status[video_name] = {...}; the broadcast that follows
\* swallows every exception of a connection and changes nothing here.
UpdateStatus(table, name, record) ==
    [n \in DOMAIN table \cup {name} |-> IF n = name THEN record ELSE table[n]]

\* The statuses an earlier run may have left for a video.
EarlierStatuses == {Completed, ErrorStatus(<<"Test", "error">>)}

InitProcess ==
    /\ LocateIdle
    /\ ReconcileIdle
    /\ BatchIdle
    /\ OthersIdle
    /\ video_name \in VideoNames
    /\ ppc = "start"
    /\ processing_status \in UNION { [names -> EarlierStatuses] : names \in SUBSET VideoNames }
    /\ content_json_exists \in BOOLEAN
    /\ audio_exists \in BOOLEAN
    /\ status_log = <<>>
    /\ raised = <<>>

\* The stage announced its statuses and went on to the stage `next`.
Advance(announced, next) ==
    /\ status_log' = status_log \o announced
    /\ processing_status' =
           UpdateStatus(processing_status, video_name, announced[Len(announced)])
    /\ ppc' = next
    /\ UNCHANGED <<video_name, raised>>
    /\ UNCHANGED <<lvars, rvars, bvars, avars, uvars, mvars>>

\* The stage announced its statuses and then raised an Exception with
\* str(e) = text: the except clause logs it and records the error status.
Caught(announced, text) ==
    /\ status_log' = (status_log \o announced) \o <<ErrorStatus(text)>>
    /\ processing_status' = UpdateStatus(processing_status, video_name, ErrorStatus(text))
    /\ raised' = <<text>>
    /\ ppc' = "returned"
    /\ UNCHANGED video_name
    /\ UNCHANGED <<lvars, rvars, bvars, avars, uvars, mvars>>

\* update_status(processing, 0) and the paths derived from video_path.
StartProcessing ==
    /\ ppc = "start"
    /\ Advance(<<Processing(0, <<"Starting", "video", "processing...">>)>>, "analyze")
    /\ UNCHANGED <<content_json_exists, audio_exists>>

\* Step 1.  analyze_video catches its own exceptions and returns None; it
\* has written video_path + ".json" or not.  The executor itself may raise.
AnalyzeContent ==
    /\ ppc = "analyze"
    /\ LET announced == <<Processing(10, <<"Analyzing", "video", "content...">>)>>
       IN  \/ /\ Advance(announced, "audio")
              /\ content_json_exists' \in {content_json_exists, TRUE}
           \/ /\ \E text \in ErrorTexts : Caught(announced, text)
              /\ UNCHANGED content_json_exists
    /\ UNCHANGED audio_exists

\* Step 2.  extract_audio_from_video writes audio_path, or raises with the
\* file written or not.
ExtractAudio ==
    /\ ppc = "audio"
    /\ LET announced == <<Processing(30, <<"Extracting", "audio", "from", "video...">>)>>
       IN  \/ /\ Advance(announced, "words")
              /\ audio_exists' = TRUE
           \/ /\ \E text \in ErrorTexts : Caught(announced, text)
              /\ audio_exists' \in {audio_exists, TRUE}
    /\ UNCHANGED content_json_exists

\* Step 3.  Word-level transcription and the _word.txt file.
TranscribeWords ==
    /\ ppc = "words"
    /\ LET announced == <<Processing(40, <<"Transcribing", "audio", "(word-level)...">>)>>
       IN  \/ Advance(announced, "sentences")
           \/ \E text \in ErrorTexts : Caught(announced, text)
    /\ UNCHANGED <<content_json_exists, audio_exists>>

\* Step 4.  Sentence-level transcription and the _sentence.txt file.
TranscribeSentences ==
    /\ ppc = "sentences"
    /\ LET announced == <<Processing(50, <<"Transcribing", "audio", "(sentence-level)...">>)>>
       IN  \/ Advance(announced, "extract")
           \/ \E text \in ErrorTexts : Caught(announced, text)
    /\ UNCHANGED <<content_json_exists, audio_exists>>

\* Step 5.  extract_selling_points in the executor.
ExtractSellingPoints ==
    /\ ppc = "extract"
    /\ LET announced == <<Processing(70, <<"Extracting", "selling", "points...">>)>>
       IN  \/ Advance(announced, "match")
           \/ \E text \in ErrorTexts : Caught(announced, text)
    /\ UNCHANGED <<content_json_exists, audio_exists>>

\* Step 6.  match_selling_points_with_timestamps and the _selling_points.json
\* file, then `if os.path.exists(content_json_path)`.
MatchSellingPoints ==
    /\ ppc = "match"
    /\ LET announced == <<Processing(80, <<"Matching", "selling", "points", "with",
                                           "timestamps...">>)>>
       IN  \/ Advance(announced, IF content_json_exists THEN "merge" ELSE "cleanup")
           \/ \E text \in ErrorTexts : Caught(announced, text)
    /\ UNCHANGED <<content_json_exists, audio_exists>>

\* Step 7.  Reads both JSON files, merge_segments_by_selling_points, writes
\* _merged_segments.json.
MergeSegments ==
    /\ ppc = "merge"
    /\ LET announced == <<Processing(90, <<"Merging", "video", "segments...">>)>>
       IN  \/ Advance(announced, "visualize")
           \/ \E text \in ErrorTexts : Caught(announced, text)
    /\ UNCHANGED <<content_json_exists, audio_exists>>

\* Step 8.  create_segments_visualization in the executor.
GenerateVisualization ==
    /\ ppc = "visualize"
    /\ LET announced == <<Processing(95, <<"Generating", "visualization...">>)>>
       IN  \/ Advance(announced, "cleanup")
           \/ \E text \in ErrorTexts : Caught(announced, text)
    /\ UNCHANGED <<content_json_exists, audio_exists>>

\* Cleanup: os.remove(audio_path) if it exists, which may raise, and the
\* completed status.
CleanupAndComplete ==
    /\ ppc = "cleanup"
    /\ \/ /\ Advance(<<Completed>>, "returned")
          /\ audio_exists' = FALSE
       \/ /\ audio_exists
          /\ \E text \in ErrorTexts : Caught(<<>>, text)
          /\ UNCHANGED audio_exists
    /\ UNCHANGED content_json_exists

NextProcess ==
    \/ StartProcessing
    \/ AnalyzeContent
    \/ ExtractAudio
    \/ TranscribeWords
    \/ TranscribeSentences
    \/ ExtractSellingPoints
    \/ MatchSellingPoints
    \/ MergeSegments
    \/ GenerateVisualization
    \/ CleanupAndComplete

SpecProcess == InitProcess /\ [][NextProcess]_vars

----------------------------------------------------------------------------
\* process_batch_endpoint as a state machine.

MaxBatch == 3

BatchNames == {"video1.mp4", "video2.mp4", "video3.mp4"}

\* os.path.join("inputs", video_name) for a plain file name.
VideoPath(name) == <<"inputs", name>>

\* os.path.exists(path)
Exists(paths, path) == path \in paths

\* background_tasks.add_task(process_video_async, video_path, video_name)
Task(path, name) == [func |-> "process_video_async", video_path |-> path, video_name |-> name]

\* A loop body without the `continue`: a missing video is scheduled too.
BatchStep_NoContinue(acc, paths, name) ==
    LET path == VideoPath(name)
    IN  [processed_videos |-> Append(acc.processed_videos, name),
         not_found_videos |-> IF ~Exists(paths, path)
                              THEN Append(acc.not_found_videos, name)
                              ELSE acc.not_found_videos,
         background_tasks |-> Append(acc.background_tasks, Task(path, name))]

\* The body of `for video_name in request.video_names`.
BatchStep(acc, paths, name) ==
    LET path == VideoPath(name)
    IN  IF ~Exists(paths, path)
        THEN [acc EXCEPT !.not_found_videos = Append(@, name)]
        ELSE [acc EXCEPT !.background_tasks = Append(@, Task(path, name)),
                         !.processed_videos = Append(@, name)]

\* The requests: lists of names, repeated names included.
BatchRequests == UNION { [1..n -> BatchNames] : n \in 0..MaxBatch }

InitBatch ==
    /\ LocateIdle
    /\ ReconcileIdle
    /\ ProcessIdle
    /\ OthersIdle
    /\ video_names \in BatchRequests
    /\ existing_paths \in SUBSET { VideoPath(n) : n \in BatchNames }
    /\ bpc = "loop"
    /\ name_idx = 0
    /\ processed_videos = <<>>
    /\ not_found_videos = <<>>
    /\ background_tasks = <<>>

\* One iteration of the loop.
BatchVideo ==
    /\ bpc = "loop"
    /\ name_idx < Len(video_names)
    /\ LET acc == BatchStep([processed_videos |-> processed_videos,
                             not_found_videos |-> not_found_videos,
                             background_tasks |-> background_tasks],
                            existing_paths, video_names[name_idx + 1])
       IN  /\ processed_videos' = acc.processed_videos
           /\ not_found_videos' = acc.not_found_videos
           /\ background_tasks' = acc.background_tasks
    /\ name_idx' = name_idx + 1
    /\ UNCHANGED <<video_names, existing_paths, bpc>>
    /\ UNCHANGED <<lvars, rvars, pvars, avars, uvars, mvars>>

\* The loop is over: the response carries both lists.
BatchReturn ==
    /\ bpc = "loop"
    /\ name_idx = Len(video_names)
    /\ bpc' = "done"
    /\ UNCHANGED <<video_names, existing_paths, name_idx, processed_videos,
                   not_found_videos, background_tasks>>
    /\ UNCHANGED <<lvars, rvars, pvars, avars, uvars, mvars>>

NextBatch == BatchVideo \/ BatchReturn

SpecBatch == InitBatch /\ [][NextBatch]_vars

----------------------------------------------------------------------------
\* process_all_videos_batch as a state machine: the tasks of asyncio.gather,
\* each `async with semaphore: await process_video_async(...)`.

MaxVideos == 4

SemaphoreLimit == 3

\* The videos glob finds: n distinct paths.
VideoLists == { [i \in 1..n |-> <<"inputs", i>>] : n \in 0..MaxVideos }

\* A semaphore that never blocks.
CanAcquire_Unlimited(value) == TRUE

\* Semaphore.acquire returns at once when the value is positive and waits
\* otherwise.
CanAcquire(value) == value > 0

\* The terminal statuses process_video_async ends in; it never raises.
ProcessOutcomes == {"completed", "error"}

InitBatchMode ==
    /\ LocateIdle
    /\ ReconcileIdle
    /\ ProcessIdle
    /\ BatchIdle
    /\ UploadIdle
    /\ MainIdle
    /\ videos \in VideoLists
    /\ apc = "glob"
    /\ semaphore = 0
    /\ task_state = <<>>
    /\ invocations = [i \in 1..Len(videos) |-> 0]

\* `if not videos: return`, else the semaphore and one task per video.
StartBatchMode ==
    /\ apc = "glob"
    /\ IF videos = <<>>
       THEN /\ apc' = "done"
            /\ UNCHANGED <<semaphore, task_state>>
       ELSE /\ apc' = "gather"
            /\ semaphore' = SemaphoreLimit
            /\ task_state' = [i \in 1..Len(videos) |-> "waiting"]
    /\ UNCHANGED <<videos, invocations>>
    /\ UNCHANGED <<lvars, rvars, pvars, bvars, uvars, mvars>>

\* A task enters `async with semaphore` and calls process_video_async.
TaskAcquires ==
    /\ apc = "gather"
    /\ \E i \in 1..Len(videos) :
           /\ task_state[i] = "waiting"
           /\ CanAcquire(semaphore)
           /\ semaphore' = semaphore - 1
           /\ task_state' = [task_state EXCEPT ![i] = "running"]
           /\ invocations' = [invocations EXCEPT ![i] = @ + 1]
    /\ UNCHANGED <<videos, apc>>
    /\ UNCHANGED <<lvars, rvars, pvars, bvars, uvars, mvars>>

\* process_video_async returns and the task leaves `async with semaphore`.
TaskReleases ==
    /\ apc = "gather"
    /\ \E i \in 1..Len(videos) : \E outcome \in ProcessOutcomes :
           /\ task_state[i] = "running"
           /\ semaphore' = semaphore + 1
           /\ task_state' = [task_state EXCEPT ![i] = outcome]
    /\ UNCHANGED <<videos, apc, invocations>>
    /\ UNCHANGED <<lvars, rvars, pvars, bvars, uvars, mvars>>

\* asyncio.gather returns once every task is done.
GatherReturns ==
    /\ apc = "gather"
    /\ \A i \in 1..Len(videos) : task_state[i] \in ProcessOutcomes
    /\ apc' = "done"
    /\ UNCHANGED <<videos, semaphore, task_state, invocations>>
    /\ UNCHANGED <<lvars, rvars, pvars, bvars, uvars, mvars>>

NextBatchMode == StartBatchMode \/ TaskAcquires \/ TaskReleases \/ GatherReturns

SpecBatchMode == InitBatchMode /\ [][NextBatchMode]_vars

----------------------------------------------------------------------------
\* upload_video as a state machine, for two requests.  A handler runs
\* without interruption up to `await file.read()`, where the event loop may
\* run the other request, and from there to its response.

MaxCounter == 2

Uploads == {1, 2}

\* file.filename of a request: stem and suffix.
Filenames ==
    { [stem |-> "clip", suffix |-> ".mp4"],
      [stem |-> "clip", suffix |-> ".MP4"],
      [stem |-> "notes", suffix |-> ".txt"] }

AllowedExtensions == {".mp4", ".avi", ".mov", ".mkv", ".webm"}

\* Path(file.filename).suffix.lower(), for the suffixes of Filenames.
SuffixLower(suffix) == IF suffix = ".MP4" THEN ".mp4" ELSE suffix

\* input_dir / original_filename for counter 0, and
\* input_dir / f"{stem}_{counter}{suffix}" for a counter from 1 on.
PathName(stem, counter, suffix) == [stem |-> stem, counter |-> counter, suffix |-> suffix]

\* while file_path.exists(): file_path = ...; counter += 1
RECURSIVE FirstFree(_, _, _, _)
FirstFree(dir, stem, suffix, counter) ==
    IF PathName(stem, counter, suffix) \in DOMAIN dir
    THEN FirstFree(dir, stem, suffix, counter + 1)
    ELSE counter

\* The file_path a request settles on for the directory it sees.
ChoosePath(dir, filename) ==
    IF PathName(filename.stem, 0, filename.suffix) \in DOMAIN dir
    THEN PathName(filename.stem, FirstFree(dir, filename.stem, filename.suffix, 1),
                  filename.suffix)
    ELSE PathName(filename.stem, 0, filename.suffix)

\* open(file_path, 'wb') and f.write(content): creates or replaces the file.
WriteFile(dir, path, content) ==
    [p \in DOMAIN dir \cup {path} |-> IF p = path THEN content ELSE dir[p]]

\* if file_path.exists(): file_path.unlink()
Unlink(dir, path) == [p \in DOMAIN dir \ {path} |-> dir[p]]

\* The files inputs holds before the requests: earlier uploads of clip.mp4.
EarlierUploads ==
    UNION { [names -> {"earlier"}] :
            names \in SUBSET { PathName("clip", k, ".mp4") : k \in 0..(MaxCounter - 1) } }

InitUpload ==
    /\ LocateIdle
    /\ ReconcileIdle
    /\ ProcessIdle
    /\ BatchIdle
    /\ BatchModeIdle
    /\ MainIdle
    /\ inputs_dir \in EarlierUploads
    /\ upload_filename \in [Uploads -> Filenames]
    /\ upc = [r \in Uploads |-> "validate"]
    /\ file_path = [r \in Uploads |-> PathName("", 0, "")]

\* From the start of the handler to `await file.read()`: the extension
\* check, which answers 400, and the choice of file_path.
ValidateAndChoose ==
    /\ \E r \in Uploads :
           /\ upc[r] = "validate"
           /\ IF SuffixLower(upload_filename[r].suffix) \notin AllowedExtensions
              THEN /\ upc' = [upc EXCEPT ![r] = "rejected"]
                   /\ UNCHANGED file_path
              ELSE /\ upc' = [upc EXCEPT ![r] = "save"]
                   /\ file_path' = [file_path EXCEPT ![r] =
                                       ChoosePath(inputs_dir, upload_filename[r])]
    /\ UNCHANGED <<inputs_dir, upload_filename>>
    /\ UNCHANGED <<lvars, rvars, pvars, bvars, avars, mvars>>

\* From the return of file.read() to the response: the file is written and
\* the video described, or a step raises and the except clause unlinks
\* file_path if it exists and answers 500.
SaveUpload ==
    /\ \E r \in Uploads :
           /\ upc[r] = "save"
           /\ \/ /\ inputs_dir' = WriteFile(inputs_dir, file_path[r], r)
                 /\ upc' = [upc EXCEPT ![r] = "done"]
              \/ /\ inputs_dir' = Unlink(inputs_dir, file_path[r])
                 /\ upc' = [upc EXCEPT ![r] = "failed"]
    /\ UNCHANGED <<upload_filename, file_path>>
    /\ UNCHANGED <<lvars, rvars, pvars, bvars, avars, mvars>>

NextUpload == ValidateAndChoose \/ SaveUpload

SpecUpload == InitUpload /\ [][NextUpload]_vars

----------------------------------------------------------------------------
\* main of transcribe_videos.py as a state machine.

MaxVideoFiles == 3

\* The videos glob finds: n distinct paths.
VideoFileLists == { [i \in 1..n |-> <<"inputs", i>>] : n \in 0..MaxVideoFiles }

\* A clean-up that runs only when the body of try succeeded.
RunsCleanup_OnSuccessOnly(body) == body = "ok"

\* `finally:` the clean-up runs however the body of try ended.
RunsCleanup(body) == body \in {"ok", "failed"}

InitMain ==
    /\ LocateIdle
    /\ ReconcileIdle
    /\ ProcessIdle
    /\ BatchIdle
    /\ BatchModeIdle
    /\ UploadIdle
    /\ video_files \in VideoFileLists
    /\ mpc = "glob"
    /\ file_idx = 0
    /\ wav_exists \in [1..Len(video_files) -> BOOLEAN]
    /\ outcomes = <<>>

\* `if not video_files: return`, else the loop starts.
MainStart ==
    /\ mpc = "glob"
    /\ mpc' = IF video_files = <<>> THEN "done" ELSE "extract"
    /\ UNCHANGED <<video_files, file_idx, wav_exists, outcomes>>
    /\ UNCHANGED <<lvars, rvars, pvars, bvars, avars, uvars>>

\* The body of try ended as `body`: on to the finally clause.
BodyEnds(body) ==
    /\ mpc' = "finally"
    /\ outcomes' = Append(outcomes, [body |-> body, wav |-> "pending"])

\* extract_audio_from_video: ffmpeg writes audio_path, or the call raises
\* with the file written or not.
MainExtractAudio ==
    /\ mpc = "extract"
    /\ \/ /\ wav_exists' = [wav_exists EXCEPT ![file_idx + 1] = TRUE]
          /\ mpc' = "words"
          /\ UNCHANGED outcomes
       \/ /\ \E left \in {wav_exists[file_idx + 1], TRUE} :
                 wav_exists' = [wav_exists EXCEPT ![file_idx + 1] = left]
          /\ BodyEnds("failed")
    /\ UNCHANGED <<video_files, file_idx>>
    /\ UNCHANGED <<lvars, rvars, pvars, bvars, avars, uvars>>

\* Word-level transcription and the write of the _word.txt file, which may
\* raise.
MainTranscribeWords ==
    /\ mpc = "words"
    /\ \/ mpc' = "sentences" /\ UNCHANGED outcomes
       \/ BodyEnds("failed")
    /\ UNCHANGED <<video_files, file_idx, wav_exists>>
    /\ UNCHANGED <<lvars, rvars, pvars, bvars, avars, uvars>>

\* Sentence-level transcription and the write of the _sentence.txt file,
\* which may raise.
MainTranscribeSentences ==
    /\ mpc = "sentences"
    /\ \/ BodyEnds("ok")
       \/ BodyEnds("failed")
    /\ UNCHANGED <<video_files, file_idx, wav_exists>>
    /\ UNCHANGED <<lvars, rvars, pvars, bvars, avars, uvars>>

\* The finally clause: if audio_path exists, os.remove removes it or raises,
\* which is logged as a warning; then the next video.
MainCleanup ==
    /\ mpc = "finally"
    /\ LET i    == file_idx + 1
           body == outcomes[Len(outcomes)].body
       IN  \/ /\ RunsCleanup(body) /\ wav_exists[i]
              /\ \/ /\ wav_exists' = [wav_exists EXCEPT ![i] = FALSE]
                    /\ outcomes' = [outcomes EXCEPT ![Len(outcomes)].wav = "removed"]
                 \/ /\ UNCHANGED wav_exists
                    /\ outcomes' = [outcomes EXCEPT ![Len(outcomes)].wav = "remove failed"]
           \/ /\ ~(RunsCleanup(body) /\ wav_exists[i])
              /\ UNCHANGED wav_exists
              /\ outcomes' = [outcomes EXCEPT ![Len(outcomes)].wav =
                                 IF wav_exists[i] THEN "kept" ELSE "absent"]
    /\ file_idx' = file_idx + 1
    /\ mpc' = IF file_idx + 1 < Len(video_files) THEN "extract" ELSE "done"
    /\ UNCHANGED video_files
    /\ UNCHANGED <<lvars, rvars, pvars, bvars, avars, uvars>>

NextMain ==
    \/ MainStart
    \/ MainExtractAudio
    \/ MainTranscribeWords
    \/ MainTranscribeSentences
    \/ MainCleanup

SpecMain == InitMain /\ [][NextMain]_vars

----------------------------------------------------------------------------
\* Properties of match_selling_points_with_timestamps.

\* A phrase has at least one word: some character of it is not whitespace.
HasWord(s) == \E i \in 1..Len(s) : s[i] # " "

CountIn(seq, P(_)) == Cardinality({i \in 1..Len(seq) : P(seq[i])})

AllUnmatched == [i \in 1..Len(word_segments) |-> FALSE]

\* The words of the transcript have start < end and are ordered by start.
TranscriptOrdered ==
    /\ \A i \in 1..Len(word_segments) : word_segments[i].start < word_segments[i].end
    /\ \A i \in 1..Len(word_segments) : \A j \in i..Len(word_segments) :
           word_segments[i].start <= word_segments[j].start

\* C4: the output of locate holds exactly one entry for every input phrase
\* with at least one word and none for an empty or whitespace-only phrase:
\* its contents are the non-empty input phrases, each as often as in the input.
C4_OneEntryPerNonEmptyPhrase ==
    lpc = "done" =>
        /\ Len(result) = Cardinality({i \in 1..Len(selling_points) :
                                         HasWord(selling_points[i])})
        /\ \A p \in PhraseCatalogue :
               LET IsP(x) == x = p
                   HasP(e) == e.content = p
               IN  CountIn(result, HasP) =
                       IF HasWord(p) THEN CountIn(selling_points, IsP) ELSE 0

\* Locate returned for a list holding a blank phrase and a phrase with words.
C4_Witness ==
    /\ lpc = "done"
    /\ \E i \in 1..Len(selling_points) : ~HasWord(selling_points[i])
    /\ \E i \in 1..Len(selling_points) : HasWord(selling_points[i])
    /\ Len(result) >= 1

\* C5: in the output every timed entry precedes every null-time entry, and
\* the timed entries are in non-decreasing startTime order.
C5_SortedNullsLast ==
    lpc = "done" =>
        \A i \in 1..Len(result) : \A j \in (i + 1)..Len(result) :
            /\ result[i].startTime = None => result[j].startTime = None
            /\ (result[i].startTime # None /\ result[j].startTime # None)
                   => result[i].startTime <= result[j].startTime

\* Locate returned two entries that were appended out of order: the phrase
\* processed first starts later, or has null times while the second is timed.
C5_Witness ==
    /\ lpc = "done"
    /\ \E a \in 1..Len(log) : \E b \in (a + 1)..Len(log) :
           /\ log[a].pass # "empty" /\ log[b].pass # "empty"
           /\ log[b].entry.startTime # None
           /\ \/ log[a].entry.startTime = None
              \/ log[a].entry.startTime > log[b].entry.startTime

\* C6: a phrase gets non-null times in locate(words, phrases) if and only
\* if it gets non-null times located alone, whatever was claimed before it.
C6_ContentionNeverCostsAnswer ==
    \A a \in 1..Len(log) :
        log[a].pass # "empty" =>
            LET pw    == Split(Lower(selling_points[log[a].sp]))
                alone == MatchPhrase(WordData(word_segments), AllUnmatched, pw)
            IN  (log[a].entry.startTime # None) <=>
                    (ResultEntry(selling_points[log[a].sp], alone.m).startTime # None)

\* A phrase found nothing among the unclaimed words and was answered by the
\* second pass.
C6_Witness ==
    \E a \in 1..Len(log) :
        /\ log[a].pass = "pass2"
        /\ \E x \in 1..Len(log[a].before) : log[a].before[x]
        /\ log[a].entry.startTime # None

IndexSet(indices) == {indices[q] : q \in 1..Len(indices)}

\* C7: a match found in pass 1 consumes no index claimed before it, so the
\* index sets of two pass-1 matches are disjoint.
C7_Pass1NeverReusesClaimed ==
    /\ \A a \in 1..Len(log) :
           log[a].pass = "pass1" =>
               \A x \in IndexSet(log[a].indices) : ~log[a].before[x]
    /\ \A a \in 1..Len(log) : \A b \in (a + 1)..Len(log) :
           (log[a].pass = "pass1" /\ log[b].pass = "pass1") =>
               IndexSet(log[a].indices) \cap IndexSet(log[b].indices) = {}

\* A pass-1 match that absorbed a word beyond a word claimed before it.
C7_Witness ==
    \E a \in 1..Len(log) :
        /\ log[a].pass = "pass1"
        /\ \E x \in IndexSet(log[a].indices) : \E y \in 1..(x - 1) :
               /\ log[a].before[y]
               /\ \E z \in IndexSet(log[a].indices) : z < y

\* C8: for a transcript with start < end ordered by start, every entry has
\* startTime <= endTime when timed, and startTime is null exactly when
\* endTime is.
C8_StartNotAfterEnd ==
    TranscriptOrdered =>
        \A i \in 1..Len(result) :
            /\ (result[i].startTime = None) <=> (result[i].endTime = None)
            /\ result[i].startTime # None => result[i].startTime <= result[i].endTime

\* A timed entry whose end comes from an absorbed word, and a null entry.
C8_Witness ==
    /\ TranscriptOrdered
    /\ \E a \in 1..Len(log) :
           /\ log[a].pass \in {"pass1", "pass2"}
           /\ log[a].entry.startTime < log[a].entry.endTime
           /\ \E i \in 1..Len(result) : result[i] = log[a].entry
    /\ \E i \in 1..Len(result) : result[i].startTime = None

\* No position of the scan reaches the threshold for the phrase words pw.
NoPositionMeets(wd, mp, pw, skip) ==
    \A i \in 1..Len(wd) :
        \/ Skipped(wd, mp, pw, i, skip)
        \/ CountMatched(wd, mp, pw, i, 0, skip) < Max(1, Len(pw) \div 2)

\* C9: when no position meets the threshold in pass 1 or in pass 2, locate
\* emits for the phrase one entry with null startTime, null endTime and the
\* phrase as content.
C9_NoMatchGivesNullEntry ==
    \A a \in 1..Len(log) :
        LET sp == selling_points[log[a].sp]
            pw == Split(Lower(sp))
            wd == WordData(word_segments)
        IN  (/\ HasWord(sp)
             /\ NoPositionMeets(wd, log[a].before, pw, TRUE)
             /\ NoPositionMeets(wd, log[a].before, pw, FALSE))
            => /\ log[a].entry = [startTime |-> None, endTime |-> None, content |-> sp]
               /\ \E i \in 1..Len(result) : result[i] = log[a].entry
               /\ Len(result) = Cardinality({b \in 1..Len(log) : log[b].pass # "empty"})

\* A phrase as long as the transcript allows, none of whose positions
\* matched, got its entry.
C9_Witness ==
    \E a \in 1..Len(log) :
        /\ log[a].pass = "none"
        /\ Len(Split(Lower(selling_points[log[a].sp]))) <= Len(word_segments)
        /\ lpc = "done"

----------------------------------------------------------------------------
\* Properties of merge_segments_by_selling_points.

\* The phrases (merged segments) that absorbed content segment i.
AbsorbedBy(i) == {m \in 1..Len(absorbed) : i \in IndexSet(absorbed[m])}

\* The history variables name the segments the output lists hold.
OutputsMatchIndices ==
    /\ Len(absorbed) = Len(merged_segments)
    /\ \A m \in 1..Len(merged_segments) :
           merged_segments[m].overlapping_segments =
               [q \in 1..Len(absorbed[m]) |-> SegmentRecord(video_segments[absorbed[m][q]])]
    /\ unmerged_segments =
           [q \in 1..Len(unmerged_idx) |-> SegmentRecord(video_segments[unmerged_idx[q]])]

\* C1: when reconcile has returned, every content segment is in the
\* overlapping list of at least one merged segment or in the unmerged list,
\* never in both and never in neither.
C1_MergedOrUnmerged ==
    rpc = "done" =>
        /\ OutputsMatchIndices
        /\ \A i \in 1..Len(video_segments) :
               (AbsorbedBy(i) # {}) # (i \in IndexSet(unmerged_idx))
        /\ \A q \in 1..Len(unmerged_idx) : \A r \in (q + 1)..Len(unmerged_idx) :
               unmerged_idx[q] # unmerged_idx[r]

\* Reconcile returned with one content segment absorbed and another unmerged.
C1_Witness ==
    /\ rpc = "done"
    /\ \E i \in 1..Len(video_segments) : AbsorbedBy(i) # {}
    /\ \E i \in 1..Len(video_segments) : i \in IndexSet(unmerged_idx)

\* C2: each content segment is absorbed by at most one phrase: no content
\* segment is in the overlapping lists of two different merged segments.
C2_AbsorbedByAtMostOnePhrase ==
    \A i \in 1..Len(video_segments) : Cardinality(AbsorbedBy(i)) <= 1

\* C3: reconcile returns normally, without raising, for every input.
C3_NeverRaises == rpc # "raised"

\* C10: merged has one entry per input phrase, in input order and with the
\* phrase's content; a phrase whose startTime or endTime is null yields null
\* start, null end and an empty overlapping list; also without content
\* segments.
C10_OneMergedPerPhrase ==
    /\ rpc = "done" => Len(merged_segments) = Len(timed_points)
    /\ rpc = "loop" => Len(merged_segments) = tp_idx
    /\ \A m \in 1..Len(merged_segments) :
           /\ merged_segments[m].content = timed_points[m].content
           /\ (timed_points[m].startTime = None \/ timed_points[m].endTime = None)
                  => /\ merged_segments[m].startTimeMs = None
                     /\ merged_segments[m].endTimeMs = None
                     /\ merged_segments[m].overlapping_segments = <<>>

\* Reconcile returned for no content segments and two phrases, the first
\* with one null time, the second timed.
C10_Witness ==
    /\ rpc = "done"
    /\ video_segments = <<>>
    /\ Len(timed_points) = 2
    /\ timed_points[1].startTime # None /\ timed_points[1].endTime = None
    /\ timed_points[2].startTime # None /\ timed_points[2].endTime # None
    /\ Len(merged_segments) = 2

\* The merged segments that absorbed at least one content segment.
Absorbing == {m \in 1..Len(absorbed) : absorbed[m] # <<>>}

\* C11: the final timeline holds one entry for each merged segment with a
\* non-empty overlapping list, in merged order and labelled with the phrase,
\* followed by one entry for each unmerged content segment with its own
\* bounds and label; nothing else.
C11_FinalTimeline ==
    rpc = "done" =>
        /\ Len(final_segments) = Cardinality(Absorbing) + Len(unmerged_idx)
        /\ \A m \in Absorbing :
               final_segments[Cardinality({x \in Absorbing : x <= m})].sellingPoint
                   = timed_points[m].content
        /\ \A q \in 1..Len(unmerged_idx) :
               final_segments[Cardinality(Absorbing) + q] =
                   [startTimeMs |-> video_segments[unmerged_idx[q]].startTimeMs,
                    endTimeMs   |-> video_segments[unmerged_idx[q]].endTimeMs,
                    sellingPoint |->
                        FieldValue(video_segments[unmerged_idx[q]], "sellingPoint")]
        /\ \A i \in 1..Len(video_segments) :
               AbsorbedBy(i) # {} => i \notin IndexSet(unmerged_idx)

\* Reconcile returned with a merged segment that absorbed, one that did not,
\* and an unmerged content segment.
C11_Witness ==
    /\ rpc = "done"
    /\ Absorbing # {}
    /\ \E m \in 1..Len(absorbed) : absorbed[m] = <<>>
    /\ unmerged_idx # <<>>

\* No two content segments of the input overlap.
SegmentsDisjoint ==
    \A i \in 1..Len(video_segments) : \A j \in 1..Len(video_segments) :
        i # j => \/ video_segments[i].endTimeMs <= video_segments[j].startTimeMs
                 \/ video_segments[j].endTimeMs <= video_segments[i].startTimeMs

\* C12: for non-overlapping content segments in any order, the final entry
\* of a merged segment that absorbed spans from the minimum startTimeMs to
\* the maximum endTimeMs of the absorbed segments.
C12_FinalSpanIsEnvelope ==
    (rpc = "done" /\ SegmentsDisjoint) =>
        \A m \in Absorbing :
            LET f == final_segments[Cardinality({x \in Absorbing : x <= m})]
            IN  \A i \in IndexSet(absorbed[m]) :
                    /\ f.startTimeMs <= video_segments[i].startTimeMs
                    /\ f.endTimeMs >= video_segments[i].endTimeMs

\* The phrase spanning 0.5 s to 1.5 s in a run with min_overlap_percentage
\* 1.0 and time_deviation_ms 0.
ExactRun == min_overlap_percentage = [num |-> 1, den |-> 1] /\ time_deviation_ms = 0

IsSpan(x, a, b) == x.startTimeMs = a /\ x.endTimeMs = b

\* C13 as stated: with min_overlap_percentage 1.0 and time_deviation_ms 0 a
\* phrase spanning 0.5 s to 1.5 s absorbs a content segment 500-1500 ms and
\* does not absorb a content segment 500-900 ms.
C13_NearIdenticalOnly ==
    ExactRun =>
        \A m \in 1..Len(merged_segments) :
            IsSpan(merged_segments[m], 500, 1500) =>
                \A i \in 1..Len(video_segments) :
                    /\ IsSpan(video_segments[i], 500, 1500) => i \in IndexSet(absorbed[m])
                    /\ IsSpan(video_segments[i], 500, 900) => i \notin IndexSet(absorbed[m])

\* C13 amended: with min_overlap_percentage 1.0 and time_deviation_ms 0 a
\* phrase and a content segment of positive duration merge exactly when one
\* span contains the other; the phrase spanning 0.5 s to 1.5 s absorbs the
\* segment 500-1500 ms and also the segment 500-900 ms.
C13_MergesWhenOneContainsOther ==
    ExactRun =>
        \A m \in 1..Len(merged_segments) :
            LET ps == merged_segments[m].startTimeMs
                pe == merged_segments[m].endTimeMs
            IN  (ps # None /\ ps < pe) =>
                    \A i \in 1..Len(video_segments) :
                        LET ss == video_segments[i].startTimeMs
                            se == video_segments[i].endTimeMs
                        IN  ss < se =>
                              /\ (i \in IndexSet(absorbed[m])) <=>
                                     \/ (ps <= ss /\ se <= pe)
                                     \/ (ss <= ps /\ pe <= se)
                              /\ (IsSpan(merged_segments[m], 500, 1500)
                                  /\ (IsSpan(video_segments[i], 500, 1500)
                                      \/ IsSpan(video_segments[i], 500, 900)))
                                     => i \in IndexSet(absorbed[m])

\* The phrase 0.5-1.5 s absorbed the segment 500-900 ms next to the segment
\* 500-1500 ms.
C13_Witness ==
    /\ ExactRun
    /\ \E m \in 1..Len(merged_segments) :
           /\ IsSpan(merged_segments[m], 500, 1500)
           /\ \E i \in IndexSet(absorbed[m]) : IsSpan(video_segments[i], 500, 900)
           /\ \E i \in IndexSet(absorbed[m]) : IsSpan(video_segments[i], 500, 1500)

\* C14: a content segment of positive duration is in the overlapping list
\* of a timed phrase of positive duration if and only if overlapStart <
\* overlapEnd and (overlapEnd - overlapStart) over the shorter duration is at
\* least min_overlap_percentage.
C14_AbsorbedIffOverlapFraction ==
    \A m \in 1..Len(merged_segments) :
        LET ps == merged_segments[m].startTimeMs
            pe == merged_segments[m].endTimeMs
        IN  (ps # None /\ ps < pe) =>
                \A i \in 1..Len(video_segments) :
                    LET ss == video_segments[i].startTimeMs
                        se == video_segments[i].endTimeMs
                        os == IF ss >= ps - time_deviation_ms THEN ss
                              ELSE ps - time_deviation_ms
                        oe == IF se <= pe + time_deviation_ms THEN se
                              ELSE pe + time_deviation_ms
                        sh == IF se - ss <= pe - ps THEN se - ss ELSE pe - ps
                    IN  ss < se =>
                          ((i \in IndexSet(absorbed[m])) <=>
                              (/\ os < oe
                               /\ (oe - os) * min_overlap_percentage.den
                                      >= min_overlap_percentage.num * sh))

\* With a positive threshold, a phrase absorbed one segment and rejected
\* another for its fraction, which overlaps it only through the time deviation.
C14_Witness ==
    /\ time_deviation_ms > 0
    /\ min_overlap_percentage.num > 0
    /\ \E m \in 1..Len(merged_segments) :
           /\ absorbed[m] # <<>>
           /\ \E i \in 1..Len(video_segments) :
                  /\ i \notin IndexSet(absorbed[m])
                  /\ video_segments[i].startTimeMs >= merged_segments[m].endTimeMs
                  /\ video_segments[i].startTimeMs
                         < merged_segments[m].endTimeMs + time_deviation_ms

\* C16: a content segment whose span coincides with that of a timed phrase
\* of positive duration is absorbed by it for every time deviation and every
\* min_overlap_percentage up to 1; alone, they give one merged entry with
\* one overlap and an empty unmerged list.
C16_CoincidingSpanAbsorbed ==
    /\ \A m \in 1..Len(merged_segments) :
           (merged_segments[m].startTimeMs # None
            /\ merged_segments[m].startTimeMs < merged_segments[m].endTimeMs) =>
               \A i \in 1..Len(video_segments) :
                   IsSpan(video_segments[i], merged_segments[m].startTimeMs,
                          merged_segments[m].endTimeMs)
                       => i \in IndexSet(absorbed[m])
    /\ (/\ rpc = "done"
        /\ Len(video_segments) = 1 /\ Len(timed_points) = 1
        /\ merged_segments[1].startTimeMs # None
        /\ merged_segments[1].startTimeMs < merged_segments[1].endTimeMs
        /\ IsSpan(video_segments[1], merged_segments[1].startTimeMs,
                  merged_segments[1].endTimeMs))
           => /\ Len(merged_segments) = 1
              /\ Len(merged_segments[1].overlapping_segments) = 1
              /\ unmerged_segments = <<>>

\* Reconcile returned for one segment 500-1500 ms and one phrase 0.5-1.5 s
\* with time deviation 100 and min_overlap_percentage 0.8.
C16_Witness ==
    /\ rpc = "done"
    /\ Len(video_segments) = 1 /\ Len(timed_points) = 1
    /\ IsSpan(video_segments[1], 500, 1500)
    /\ IsSpan(merged_segments[1], 500, 1500)
    /\ time_deviation_ms = 100
    /\ min_overlap_percentage = [num |-> 4, den |-> 5]

C24_FinalSpanFirstToLast ==
    rpc = "done" =>
        \A m \in Absorbing :
            LET f  == final_segments[Cardinality({x \in Absorbing : x <= m})]
                ov == merged_segments[m].overlapping_segments
            IN  /\ Len(ov) = Len(absorbed[m])
                /\ \A q \in 1..Len(ov) :
                       /\ ov[q] = SegmentRecord(video_segments[absorbed[m][q]])
                       /\ q > 1 => absorbed[m][q - 1] < absorbed[m][q]
                /\ f.startTimeMs = video_segments[absorbed[m][1]].startTimeMs
                /\ f.endTimeMs = video_segments[absorbed[m][Len(ov)]].endTimeMs

\* A phrase that absorbed two segments, the later one given first, and
\* whose own span differs from its final entry.
C24_Witness ==
    /\ rpc = "done"
    /\ \E m \in Absorbing :
           /\ Len(absorbed[m]) = 2
           /\ video_segments[1].startTimeMs > video_segments[2].startTimeMs
           /\ merged_segments[m].endTimeMs # video_segments[2].endTimeMs

\* The tolerances the run is compared with: its own and wider ones.
WiderDeviations == {time_deviation_ms + d : d \in {0, 1, 100, 1000}}

\* Merged segment m comes from a selling point of positive duration.
PositiveDuration(m) ==
    /\ merged_segments[m].startTimeMs # None
    /\ merged_segments[m].startTimeMs < merged_segments[m].endTimeMs

\* What the selling point of merged segment m absorbs with tolerance dev.
AbsorbedWith(m, dev) ==
    FindOverlapping(video_segments, 1, merged_segments[m].startTimeMs,
                    merged_segments[m].endTimeMs, dev, min_overlap_percentage,
                    [overlapping |-> <<>>, idx |-> <<>>, merged |-> {}, raised |-> FALSE])

\* C28: every segment a phrase of positive duration absorbs is absorbed by
\* it with every wider tolerance, and when all timed phrases have positive
\* durations the unmerged segments of the wider tolerance are among the
\* unmerged segments of the run.
C28_WiderToleranceKeepsAbsorptions ==
    \A dev \in WiderDeviations :
        /\ \A m \in 1..Len(absorbed) :
               PositiveDuration(m) =>
                   /\ ~AbsorbedWith(m, dev).raised
                   /\ IndexSet(absorbed[m]) \subseteq IndexSet(AbsorbedWith(m, dev).idx)
        /\ (rpc = "done" /\ \A m \in 1..Len(absorbed) :
                                merged_segments[m].startTimeMs # None =>
                                    PositiveDuration(m)) =>
               LET merged == UNION { IndexSet(AbsorbedWith(m, dev).idx) :
                                     m \in {x \in 1..Len(absorbed) : PositiveDuration(x)} }
               IN  IndexSet(UnmergedIndices(Len(video_segments), 1, merged))
                       \subseteq IndexSet(unmerged_idx)

\* A run without tolerance that left a segment unmerged which a tolerance
\* of 100 ms lets a phrase absorb, next to a segment it absorbs in both.
C28_Witness ==
    /\ rpc = "done"
    /\ time_deviation_ms = 0
    /\ \E m \in Absorbing :
           /\ PositiveDuration(m)
           /\ \E i \in IndexSet(unmerged_idx) : i \in IndexSet(AbsorbedWith(m, 100).idx)

----------------------------------------------------------------------------
\* Further properties of match_selling_points_with_timestamps.

\* The candidate accepted for log entry a matches all words of the phrase on
\* consecutive transcript words (unclaimed ones, in pass 1).
FullMatch(a) ==
    LET pw == Split(Lower(selling_points[log[a].sp]))
        wd == WordData(word_segments)
        i  == log[a].indices[1]
    IN  /\ i + Len(pw) - 1 <= Len(wd)
        /\ \A j \in 0..(Len(pw) - 1) :
               /\ WordsMatch(wd[i + j].word, pw[j + 1])
               /\ log[a].pass = "pass1" => ~log[a].before[i + j]

\* C15: when the accepted candidate matches all n words of the phrase on n
\* consecutive words from index i, startTime is the (rounded) start of word
\* i, endTime the (rounded) end of word i+n-1, nothing is absorbed beyond
\* them and exactly i..i+n-1 are claimed.
C15_FullMatchTimes ==
    \A a \in 1..Len(log) :
        (log[a].pass \in {"pass1", "pass2"} /\ FullMatch(a)) =>
            LET n == Len(Split(Lower(selling_points[log[a].sp])))
                i == log[a].indices[1]
            IN  /\ log[a].entry.startTime = Round2(word_segments[i].start)
                /\ log[a].entry.endTime = Round2(word_segments[i + n - 1].end)
                /\ log[a].indices = [x \in 1..n |-> i + x - 1]
                /\ \A x \in 1..Len(word_segments) :
                       (a = Len(log) /\ lpc = "loop") =>
                           (matched_positions[x] <=>
                               (log[a].before[x] \/ (i <= x /\ x <= i + n - 1)))

\* A phrase of two words matched in full, not at the start of the
\* transcript and with words left after it.
C15_Witness ==
    \E a \in 1..Len(log) :
        /\ log[a].pass \in {"pass1", "pass2"}
        /\ FullMatch(a)
        /\ Len(log[a].indices) >= 2
        /\ log[a].indices[1] > 1
        /\ log[a].indices[Len(log[a].indices)] < Len(word_segments)

\* C18 as stated: the output of locate is as long as the input phrase list.
C18_LengthEqualsInput ==
    lpc = "done" => Len(result) = Len(selling_points)

\* C18 amended: the output of locate is as long as the number of input
\* phrases that have at least one word; at every point of the loop result
\* holds one entry per such phrase consumed.
C18_LengthIsNonEmptyCount ==
    /\ lpc = "done" =>
           Len(result) = Len(selling_points)
               - Cardinality({i \in 1..Len(selling_points) : ~HasWord(selling_points[i])})
    /\ lpc = "loop" =>
           Len(result) = sp_idx
               - Cardinality({i \in 1..sp_idx : ~HasWord(selling_points[i])})

\* Locate returned fewer entries than it was given phrases.
C18_Witness ==
    /\ lpc = "done"
    /\ Len(selling_points) = 2
    /\ Len(result) = 1

\* The words of the phrase of log entry a, and whether a is a match.
PhraseWords(a) == Split(Lower(selling_points[log[a].sp]))

Matched(a) == log[a].pass \in {"pass1", "pass2"}

\* Position i is eligible for log entry a in the pass that matched it: at
\* least n words remain from i and, in pass 1, i is unclaimed.
Eligible(a, i) ==
    /\ (i - 1) + Len(PhraseWords(a)) <= Len(word_segments)
    /\ log[a].pass = "pass1" => ~log[a].before[i]

\* From position i at least c consecutive words match the first c words of
\* the phrase of log entry a, none of them claimed in pass 1.
PrefixMatches(a, i, c) ==
    /\ c <= Len(PhraseWords(a))
    /\ (i - 1) + c <= Len(word_segments)
    /\ \A j \in 0..(c - 1) :
           /\ WordsMatch(Lower(word_segments[i + j].word), PhraseWords(a)[j + 1])
           /\ log[a].pass = "pass1" => ~log[a].before[i + j]

\* C21: the position accepted for a phrase is the smallest eligible index
\* of the pass at which at least max(1, floor(n/2)) leading phrase words
\* match consecutively; later positions are not chosen even when they match
\* more words.
C21_FirstMatchWins ==
    \A a \in 1..Len(log) :
        Matched(a) =>
            LET i == log[a].indices[1]
                c == Max(1, Len(PhraseWords(a)) \div 2)
            IN  /\ Eligible(a, i)
                /\ PrefixMatches(a, i, c)
                /\ \A x \in 1..(i - 1) : ~(Eligible(a, x) /\ PrefixMatches(a, x, c))

\* A phrase accepted at a position where it matches fewer words than at a
\* later eligible position.
C21_Witness ==
    \E a \in 1..Len(log) :
        /\ Matched(a)
        /\ LET i == log[a].indices[1]
               n == Len(PhraseWords(a))
           IN  /\ ~PrefixMatches(a, i, n)
               /\ \E x \in (i + 1)..Len(word_segments) :
                      Eligible(a, x) /\ PrefixMatches(a, x, n)

\* C22: a phrase matched in pass 2 gets the times it gets when it is
\* located alone against the same transcript, whatever earlier phrases
\* claimed, and the words it consumes may already be claimed.
C22_Pass2IgnoresClaims ==
    \A a \in 1..Len(log) :
        log[a].pass = "pass2" =>
            LET alone == MatchPhrase(WordData(word_segments), AllUnmatched, PhraseWords(a))
                entry == ResultEntry(selling_points[log[a].sp], alone.m)
            IN  /\ alone.pass = "pass1"
                /\ log[a].entry = entry
                /\ log[a].indices = alone.m.matched_indices

\* A phrase matched in pass 2 that absorbed, beyond its matched prefix, a
\* word an earlier phrase had claimed.
C22_Witness ==
    \E a \in 1..Len(log) :
        /\ log[a].pass = "pass2"
        /\ LET k == log[a].indices[Len(log[a].indices)]
           IN  /\ log[a].before[k]
               /\ k >= log[a].indices[1] + Len(PhraseWords(a)) \div 2
               /\ ~PrefixMatches(a, log[a].indices[1], k - log[a].indices[1] + 1)

\* C23: in a transcript whose words have start < end and are ordered by
\* start, no absorbed word ends before the word consumed before it, so the
\* end time of a match is at least the end of the last word of its prefix.
C23_AbsorptionNeverLowersEnd ==
    TranscriptOrdered =>
        \A a \in 1..Len(log) :
            Matched(a) =>
                \A q \in 2..Len(log[a].indices) :
                    ~PrefixMatches(a, log[a].indices[1], q) =>
                        word_segments[log[a].indices[q]].end >=
                            word_segments[log[a].indices[q - 1]].end

\* C29: every accepted start index leaves at least n transcript words from
\* it on, in both passes, and a phrase with more words than the transcript
\* gets null times.
C29_EnoughWordsRemain ==
    \A a \in 1..Len(log) :
        /\ Matched(a) =>
               (log[a].indices[1] - 1) + Len(PhraseWords(a)) <= Len(word_segments)
        /\ (log[a].pass # "empty" /\ Len(PhraseWords(a)) > Len(word_segments)) =>
               /\ log[a].pass = "none"
               /\ log[a].entry.startTime = None
               /\ log[a].entry.endTime = None

\* A phrase with more words than the transcript whose leading half matches
\* the first words of the transcript.
C29_Witness ==
    \E a \in 1..Len(log) :
        /\ log[a].pass = "none"
        /\ Len(PhraseWords(a)) > Len(word_segments)
        /\ \A x \in 1..Len(word_segments) : ~log[a].before[x]
        /\ PrefixMatches(a, 1, Max(1, Len(PhraseWords(a)) \div 2))

\* matched_positions after the iteration of log entry a.
ClaimedAfter(a) == IF a < Len(log) THEN log[a + 1].before ELSE matched_positions

\* C30: matched_positions only grows: an empty phrase and a phrase with null
\* times leave it unchanged, a matched phrase adds exactly the indices it
\* consumed, and no index is ever un-claimed.
C30_ClaimedOnlyGrows ==
    \A a \in 1..Len(log) :
        \A x \in 1..Len(word_segments) :
            /\ log[a].before[x] => ClaimedAfter(a)[x]
            /\ IF Matched(a)
               THEN ClaimedAfter(a)[x] <=> (log[a].before[x] \/ x \in IndexSet(log[a].indices))
               ELSE ClaimedAfter(a)[x] <=> log[a].before[x]

\* Two matched phrases, the second claiming new words next to the claims of
\* the first, which it keeps.
C30_Witness ==
    /\ Len(log) = 2
    /\ Matched(1)
    /\ Matched(2)
    /\ \E x \in IndexSet(log[1].indices) : x \notin IndexSet(log[2].indices)
    /\ \E x \in IndexSet(log[2].indices) : ~log[2].before[x]

----------------------------------------------------------------------------
\* Properties of process_video_async.

IsTerminal(record) == record.status \in {"completed", "error"}

\* C19: process_video_async handles every exception of a stage itself and
\* ends in a terminal status: when a stage raised, the last status of the
\* run, which is also the video's entry of processing_status, is "error"
\* with progress 0 and a message containing the error text; when no stage
\* raised it is "completed" with progress 100; a terminal status is the
\* last update of the run.
C19_EndsInTerminalStatus ==
    /\ raised # <<>> => ppc = "returned"
    /\ ppc = "returned" =>
           LET last == status_log[Len(status_log)]
           IN  /\ status_log # <<>>
               /\ video_name \in DOMAIN processing_status
               /\ processing_status[video_name] = last
               /\ IF raised # <<>>
                  THEN /\ last.status = "error"
                       /\ last.progress = 0
                       /\ Contains(raised[1], last.message)
                  ELSE /\ last.status = "completed"
                       /\ last.progress = 100
    /\ \A i \in 1..Len(status_log) :
           IsTerminal(status_log[i]) => (i = Len(status_log) /\ ppc = "returned")

\* A run whose cleanup raised a non-empty error text after every stage,
\* merging and visualization included, had succeeded.
C19_Witness ==
    /\ ppc = "returned"
    /\ raised = << <<"No", "such", "file">> >>
    /\ Len(status_log) = 10
    /\ status_log[9].progress = 95

----------------------------------------------------------------------------
\* Properties of process_batch_endpoint.

RECURSIVE Keep(_, _, _)
\* The names of a list whose path exists (wanted) or does not, in order.
Keep(names, paths, wanted) ==
    IF names = <<>> THEN <<>>
    ELSE LET rest == Keep(Tail(names), paths, wanted)
         IN  IF Exists(paths, VideoPath(Head(names))) = wanted
             THEN <<Head(names)>> \o rest
             ELSE rest

\* C20: every requested name the loop has passed is in processed_videos
\* when its path under inputs exists and in not_found_videos when it does
\* not, each list in request order, and background_tasks holds exactly one
\* process_video_async task per entry of processed_videos, in that order,
\* and none for a name that was not found.
C20_BatchPartition ==
    bpc # "idle" =>
        LET seen == SubSeq(video_names, 1, name_idx)
        IN  /\ processed_videos = Keep(seen, existing_paths, TRUE)
            /\ not_found_videos = Keep(seen, existing_paths, FALSE)
            /\ \A n \in BatchNames :
                   ~(\E i \in 1..Len(processed_videos) : processed_videos[i] = n
                     /\ \E j \in 1..Len(not_found_videos) : not_found_videos[j] = n)
            /\ Len(background_tasks) = Len(processed_videos)
            /\ \A i \in 1..Len(background_tasks) :
                   background_tasks[i] =
                       Task(VideoPath(processed_videos[i]), processed_videos[i])
            /\ bpc = "done" => name_idx = Len(video_names)

\* The handler returned for a request of three names of which the second
\* is missing and the other two are the same existing video.
C20_Witness ==
    /\ bpc = "done"
    /\ Len(video_names) = 3
    /\ video_names[1] = video_names[3]
    /\ Len(processed_videos) = 2
    /\ Len(not_found_videos) = 1
    /\ Len(background_tasks) = 2

----------------------------------------------------------------------------
\* Properties of process_all_videos_batch.

Running == {i \in 1..Len(task_state) : task_state[i] = "running"}

\* C25: at most 3 invocations of process_video_async are in progress at any
\* moment, every video found is processed exactly once, and the batch
\* completes only after all of them have finished.
C25_AtMostThreeAtOnce ==
    apc \in {"gather", "done"} =>
        /\ Cardinality(Running) <= 3
        /\ \A i \in 1..Len(videos) :
               /\ invocations[i] = (IF videos # <<>> /\ task_state[i] # "waiting" THEN 1 ELSE 0)
               /\ apc = "done" => (invocations[i] = 1 /\ task_state[i] \in ProcessOutcomes)

\* Three invocations are in progress while a fourth video waits for the
\* semaphore.
C25_Witness ==
    /\ apc = "gather"
    /\ Cardinality(Running) = 3
    /\ \E i \in 1..Len(videos) : task_state[i] = "waiting"

----------------------------------------------------------------------------
\* Properties of upload_video.

\* C26: upload_video never overwrites a file of inputs: every upload that
\* was answered with success is stored under its file_path with its own
\* content, and two such uploads are stored in two different files, also
\* when the requests are handled concurrently.
C26_NeverOverwrites ==
    \A r \in Uploads :
        upc[r] = "done" =>
            /\ file_path[r] \in DOMAIN inputs_dir
            /\ inputs_dir[file_path[r]] = r
            /\ \A q \in Uploads \ {r} :
                   upc[q] = "done" => file_path[q] # file_path[r]

----------------------------------------------------------------------------
\* Properties of main of transcribe_videos.py.

\* C27 as stated: once a video's processing has ended its .wav file does not
\* exist, whether the steps succeeded or raised, and every video is
\* processed although an earlier one failed.
C27_WavRemovedAlways ==
    /\ \A i \in 1..file_idx : ~wav_exists[i]
    /\ mpc = "done" => file_idx = Len(video_files)

\* C27 amended: once a video's processing has ended its .wav file exists
\* only if os.remove itself raised, whether the steps succeeded or raised,
\* and every video is processed although an earlier one failed.
C27_WavRemovedUnlessRemoveFails ==
    /\ Len(outcomes) = file_idx + (IF mpc = "finally" THEN 1 ELSE 0)
    /\ \A i \in 1..file_idx :
           /\ wav_exists[i] <=> outcomes[i].wav = "remove failed"
           /\ outcomes[i].wav \in {"removed", "remove failed", "absent"}
    /\ mpc = "done" => file_idx = Len(video_files)

\* Two videos: the first failed after its .wav was written, which was then
\* removed, and the second was processed in full.
C27_Witness ==
    /\ mpc = "done"
    /\ Len(outcomes) = 2
    /\ outcomes[1] = [body |-> "failed", wav |-> "removed"]
    /\ outcomes[2] = [body |-> "ok", wav |-> "removed"]

====
